---- MODULE Spec2Model ----
(***************************************************************************)
(* Model of the homework_bot polling loop (src/homework.py).               *)
(*                                                                         *)
(* Python values are tagged records: None, PyInt(i), PyStr(s), PyList(l)   *)
(* and PyDict(d).  A dict is a TLA+ function from its keys to values, so a *)
(* key that is absent is absent from DOMAIN d, and a key whose value is    *)
(* JSON null is present with the value None.                               *)
(*                                                                         *)
(* Text: a TLA+ string holds only ASCII, so every non-ASCII character of a *)
(* Python string is written as the six characters \uXXXX (its code point). *)
(* The encoding is injective and commutes with concatenation, so f-string  *)
(* formatting is modelled by \o on the encoded pieces.                     *)
(*                                                                         *)
(* Logging (logging.debug/info/error/critical) writes only to the log      *)
(* stream and changes nothing the program reads; it is not modelled.       *)
(***************************************************************************)
EXTENDS Integers, Sequences, FiniteSets, TLC

VARIABLES
    tokens,     \* the three module-level secrets read from the environment
    pc,         \* position of main(): the statement about to run
    timestamp,  \* main's local `timestamp` (the cursor)
    arg,        \* from_date of the most recent GET (params of requests.get)
    response,   \* main's local `response`
    homeworks,  \* main's local `homeworks`
    message,    \* main's local `message`
    error,      \* the exception raised in the current iteration, if any
    sent,       \* bot.send_message attempts of the current iteration
    calls,      \* requests.get calls of the current iteration
    slept       \* seconds slept in the current iteration

vars == <<tokens, pc, timestamp, arg, response, homeworks, message, error,
          sent, calls, slept>>

----------------------------------------------------------------------------
(* Python values *)

None == [t |-> "none"]
PyInt(i) == [t |-> "int", i |-> i]
PyStr(s) == [t |-> "str", s |-> s]
PyList(l) == [t |-> "list", l |-> l]
PyDict(d) == [t |-> "dict", d |-> d]

\* A local name that no assignment has bound in the current iteration.
Unbound == [t |-> "unbound"]

\* No exception raised (so far) in the current iteration.
NoError == [type |-> "none"]

Exc(type, msg) == [type |-> type, msg |-> msg]

\* isinstance(v, dict), isinstance(v, list)
IsDict(v) == v.t = "dict"
IsList(v) == v.t = "list"

\* type(v).__name__
TypeName(v) ==
    CASE v.t = "none" -> "NoneType"
      [] v.t = "int" -> "int"
      [] v.t = "str" -> "str"
      [] v.t = "list" -> "list"
      [] v.t = "dict" -> "dict"

\* dict.get(key, default) on a dict value
Get(v, key, default) == IF key \in DOMAIN v.d THEN v.d[key] ELSE default

\* bool(v) for the values a list or None can take in `if homeworks:`
Truthy(v) ==
    CASE v.t = "list" -> Len(v.l) > 0
      [] v.t = "none" -> FALSE
      [] v.t = "str" -> v.s # ""
      [] v.t = "int" -> v.i # 0
      [] v.t = "dict" -> DOMAIN v.d # {}

\* str(v) inside an f-string, for the values formatted by the program
Format(v) ==
    CASE v.t = "str" -> v.s
      [] v.t = "none" -> "None"
      [] v.t = "int" -> ToString(v.i)

----------------------------------------------------------------------------
(* Module constants *)

RETRY_PERIOD == 600

ENDPOINT == "https://practicum.yandex.ru/api/user_api/homework_statuses/"

\* HTTPStatus.OK
HTTP_OK == 200

\* 'approved': 'Работа проверена: ревьюеру всё понравилось. Ура!'
\* 'reviewing': 'Работа взята на проверку ревьюером.'
\* 'rejected': 'Работа проверена: у ревьюера есть замечания.'
HOMEWORK_VERDICTS ==
    [approved |-> "\\u0420\\u0430\\u0431\\u043e\\u0442\\u0430 \\u043f\\u0440\\u043e\\u0432\\u0435\\u0440\\u0435\\u043d\\u0430: \\u0440\\u0435\\u0432\\u044c\\u044e\\u0435\\u0440\\u0443 \\u0432\\u0441\\u0451 \\u043f\\u043e\\u043d\\u0440\\u0430\\u0432\\u0438\\u043b\\u043e\\u0441\\u044c. \\u0423\\u0440\\u0430!",
     reviewing |-> "\\u0420\\u0430\\u0431\\u043e\\u0442\\u0430 \\u0432\\u0437\\u044f\\u0442\\u0430 \\u043d\\u0430 \\u043f\\u0440\\u043e\\u0432\\u0435\\u0440\\u043a\\u0443 \\u0440\\u0435\\u0432\\u044c\\u044e\\u0435\\u0440\\u043e\\u043c.",
     rejected |-> "\\u0420\\u0430\\u0431\\u043e\\u0442\\u0430 \\u043f\\u0440\\u043e\\u0432\\u0435\\u0440\\u0435\\u043d\\u0430: \\u0443 \\u0440\\u0435\\u0432\\u044c\\u044e\\u0435\\u0440\\u0430 \\u0435\\u0441\\u0442\\u044c \\u0437\\u0430\\u043c\\u0435\\u0447\\u0430\\u043d\\u0438\\u044f."]

(* The texts of the program, in the encoding described above *)

\* check_tokens, line 54: 'Не все переменные окружения доступны.'
TOKENS_TEXT == "\\u041d\\u0435 \\u0432\\u0441\\u0435 \\u043f\\u0435\\u0440\\u0435\\u043c\\u0435\\u043d\\u043d\\u044b\\u0435 \\u043e\\u043a\\u0440\\u0443\\u0436\\u0435\\u043d\\u0438\\u044f \\u0434\\u043e\\u0441\\u0442\\u0443\\u043f\\u043d\\u044b."

\* get_api_answer, line 84: 'Ошибка при запросе к API: '
REQUEST_ERROR_TEXT == "\\u041e\\u0448\\u0438\\u0431\\u043a\\u0430 \\u043f\\u0440\\u0438 \\u0437\\u0430\\u043f\\u0440\\u043e\\u0441\\u0435 \\u043a API: "

\* get_api_answer, line 77: 'Эндпоинт '
ENDPOINT_TEXT == "\\u042d\\u043d\\u0434\\u043f\\u043e\\u0438\\u043d\\u0442 "

\* get_api_answer, lines 77-78: ' недоступен. Код ответа: '
UNAVAILABLE_TEXT == " \\u043d\\u0435\\u0434\\u043e\\u0441\\u0442\\u0443\\u043f\\u0435\\u043d. \\u041a\\u043e\\u0434 \\u043e\\u0442\\u0432\\u0435\\u0442\\u0430: "

\* check_response, line 91: 'Ответ API должен быть словарём'
NOT_DICT_TEXT == "\\u041e\\u0442\\u0432\\u0435\\u0442 API \\u0434\\u043e\\u043b\\u0436\\u0435\\u043d \\u0431\\u044b\\u0442\\u044c \\u0441\\u043b\\u043e\\u0432\\u0430\\u0440\\u0451\\u043c"

\* check_response, line 94: 'В ответе API отсутствуют необходимые ключи'
NO_KEYS_TEXT == "\\u0412 \\u043e\\u0442\\u0432\\u0435\\u0442\\u0435 API \\u043e\\u0442\\u0441\\u0443\\u0442\\u0441\\u0442\\u0432\\u0443\\u044e\\u0442 \\u043d\\u0435\\u043e\\u0431\\u0445\\u043e\\u0434\\u0438\\u043c\\u044b\\u0435 \\u043a\\u043b\\u044e\\u0447\\u0438"

\* check_response, line 97: 'Поле "homeworks" должно быть списком'
NOT_LIST_TEXT == "\\u041f\\u043e\\u043b\\u0435 \"homeworks\" \\u0434\\u043e\\u043b\\u0436\\u043d\\u043e \\u0431\\u044b\\u0442\\u044c \\u0441\\u043f\\u0438\\u0441\\u043a\\u043e\\u043c"

\* parse_status, line 109: 'В ответе отсутствуют необходимые поля'
NO_FIELDS_TEXT == "\\u0412 \\u043e\\u0442\\u0432\\u0435\\u0442\\u0435 \\u043e\\u0442\\u0441\\u0443\\u0442\\u0441\\u0442\\u0432\\u0443\\u044e\\u0442 \\u043d\\u0435\\u043e\\u0431\\u0445\\u043e\\u0434\\u0438\\u043c\\u044b\\u0435 \\u043f\\u043e\\u043b\\u044f"

\* parse_status, line 114: 'Неизвестный статус работы: '
UNKNOWN_STATUS_TEXT == "\\u041d\\u0435\\u0438\\u0437\\u0432\\u0435\\u0441\\u0442\\u043d\\u044b\\u0439 \\u0441\\u0442\\u0430\\u0442\\u0443\\u0441 \\u0440\\u0430\\u0431\\u043e\\u0442\\u044b: "

\* parse_status, line 119: 'Изменился статус проверки работы "'
STATUS_CHANGED_TEXT == "\\u0418\\u0437\\u043c\\u0435\\u043d\\u0438\\u043b\\u0441\\u044f \\u0441\\u0442\\u0430\\u0442\\u0443\\u0441 \\u043f\\u0440\\u043e\\u0432\\u0435\\u0440\\u043a\\u0438 \\u0440\\u0430\\u0431\\u043e\\u0442\\u044b \""

\* main, line 143: 'Сбой в работе программы: '
FAILURE_TEXT == "\\u0421\\u0431\\u043e\\u0439 \\u0432 \\u0440\\u0430\\u0431\\u043e\\u0442\\u0435 \\u043f\\u0440\\u043e\\u0433\\u0440\\u0430\\u043c\\u043c\\u044b: "

----------------------------------------------------------------------------
(* Inputs: the environment, the review API and the chat API *)

\* Longest homeworks list the review API returns in the model.
MaxHomeworks == 2

\* os.getenv(name): None when the variable is absent, else its text.
TokenNames == {"PRACTICUM_TOKEN", "TELEGRAM_TOKEN", "TELEGRAM_CHAT_ID"}
TokenValues == {None, PyStr(""), PyStr("secret")}

\* int(time.time()) at startup
StartTimes == {500, 1000}

\* Values of current_date in a response
Dates == {None, PyInt(1000), PyInt(2000)}

\* Values of homework_name: null or a text.
NameValues == {None, PyStr("hw1"), PyStr("hw2")}

\* Values of status: any JSON value: null, the known and an unknown text,
\* a number, and the unhashable ones, a list and a mapping.
StatusValues == {None, PyStr("approved"), PyStr("reviewing"), PyStr("rejected"),
                 PyStr("archived"), PyInt(5), PyList(<<>>), PyDict(<<>>)}

\* The first entry of homeworks: a record with each field absent, null or
\* set, or a value that is no record at all.
FirstEntries ==
    {PyStr("junk"), None, PyDict(<<>>)}
    \cup {PyDict([homework_name |-> n]) : n \in NameValues}
    \cup {PyDict([status |-> s]) : s \in StatusValues}
    \cup {PyDict([homework_name |-> n, status |-> s]) :
            n \in NameValues, s \in StatusValues}

\* The entries after the first: well-formed and malformed ones.
RestEntries ==
    {PyStr("junk"),
     PyDict([status |-> PyStr("archived")]),
     PyDict([homework_name |-> PyStr("hw9"), status |-> PyStr("rejected")])}

RECURSIVE RestLists(_)
RestLists(n) ==
    IF n = 0 THEN {<<>>}
    ELSE RestLists(n - 1)
         \cup {Append(l, e) : l \in {r \in RestLists(n - 1) : Len(r) = n - 1},
                              e \in RestEntries}

HomeworkLists ==
    {<<>>} \cup {<<f>> \o r : f \in FirstEntries, r \in RestLists(MaxHomeworks - 1)}

\* Values of the homeworks field
HomeworksValues == {None, PyStr("none yet")} \cup {PyList(l) : l \in HomeworkLists}

\* Decoded JSON bodies
Bodies ==
    {None, PyList(<<>>), PyStr("error"), PyDict(<<>>)}
    \cup {PyDict([current_date |-> c]) : c \in Dates}
    \cup {PyDict([homeworks |-> h]) : h \in HomeworksValues}
    \cup {PyDict([homeworks |-> h, current_date |-> c]) :
            h \in HomeworksValues, c \in Dates}

\* What response.json() can do: return the decoded body, or raise.  The
\* exception derives from RequestException in requests >= 2.27 and only
\* from ValueError before; both are kept.
JsonBad(b) ==
    [ok |-> FALSE, request_exc |-> b,
     text |-> "Expecting value: line 1 column 1 (char 0)"]
JsonResults ==
    {[ok |-> TRUE, body |-> b] : b \in Bodies} \cup {JsonBad(b) : b \in BOOLEAN}

\* What one requests.get(...) can do: raise a RequestException, or return a
\* response with a status code and a body.
HttpOutcomes ==
    {[kind |-> "raise", text |-> "Connection refused"]}
    \cup {[kind |-> "response", status_code |-> c, json |-> JsonBad(TRUE)] :
            c \in {404, 503}}
    \cup {[kind |-> "response", status_code |-> HTTP_OK, json |-> j] :
            j \in JsonResults}

----------------------------------------------------------------------------
(* The functions of homework.py *)

\* Mutant of missing_tokens: `value is None` in place of `not value`.
missing_tokens_none_only(tk) == {name \in TokenNames : tk[name] = None}

\* check_tokens(): the names of the secrets whose value is falsy
\* (None or the empty string); raises BotTokenException when there is one.
missing_tokens(tk) == {name \in TokenNames : ~Truthy(tk[name])}

check_tokens(tk) ==
    IF missing_tokens(tk) # {}
    THEN [ok |-> FALSE,
          error |-> Exc("BotTokenException",
                        TOKENS_TEXT)]
    ELSE [ok |-> TRUE]

\* Mutant of send_message: no try/except around bot.send_message.
send_message_raising(msg, delivered) == [raised |-> ~delivered]

\* send_message(bot, message): `delivered` is whether bot.send_message
\* returned (TRUE) or raised (FALSE).  The except clause swallows the
\* exception, so the function returns normally either way.
send_message(msg, delivered) == [raised |-> FALSE]

\* get_api_answer(timestamp) given what the GET does.
get_api_answer(http) ==
    IF http.kind = "raise"
    THEN \* except requests.RequestException
         [ok |-> FALSE,
          error |-> Exc("APIError",
                        REQUEST_ERROR_TEXT
                        \o http.text)]
    ELSE IF http.status_code # HTTP_OK
    THEN \* APIError is no RequestException: it leaves the function as is
         [ok |-> FALSE,
          error |-> Exc("APIError",
                        ENDPOINT_TEXT \o ENDPOINT
                        \o UNAVAILABLE_TEXT
                        \o ToString(http.status_code))]
    ELSE IF http.json.ok
    THEN [ok |-> TRUE, value |-> http.json.body]
    ELSE IF http.json.request_exc
    THEN [ok |-> FALSE,
          error |-> Exc("APIError",
                        REQUEST_ERROR_TEXT
                        \o http.json.text)]
    ELSE [ok |-> FALSE, error |-> Exc("JSONDecodeError", http.json.text)]

\* Mutant of check_response: `and` in place of `or` in the key test.
check_response_and(resp) ==
    IF ~IsDict(resp)
    THEN [ok |-> FALSE, error |-> Exc("TypeError", NOT_DICT_TEXT)]
    ELSE IF "homeworks" \notin DOMAIN resp.d /\ "current_date" \notin DOMAIN resp.d
    THEN [ok |-> FALSE, error |-> Exc("TypeError", NO_KEYS_TEXT)]
    ELSE IF "homeworks" \notin DOMAIN resp.d
    THEN [ok |-> FALSE, error |-> Exc("KeyError", "'homeworks'")]
    ELSE IF ~IsList(resp.d["homeworks"])
    THEN [ok |-> FALSE, error |-> Exc("TypeError", NOT_LIST_TEXT)]
    ELSE [ok |-> TRUE, value |-> resp.d["homeworks"]]

\* check_response(response)
check_response(resp) ==
    IF ~IsDict(resp)
    THEN [ok |-> FALSE,
          error |-> Exc("TypeError",
                        NOT_DICT_TEXT)]
    ELSE IF "homeworks" \notin DOMAIN resp.d \/ "current_date" \notin DOMAIN resp.d
    THEN [ok |-> FALSE,
          error |-> Exc("TypeError",
                        NO_KEYS_TEXT)]
    ELSE IF ~IsList(resp.d["homeworks"])
    THEN [ok |-> FALSE,
          error |-> Exc("TypeError",
                        NOT_LIST_TEXT)]
    ELSE [ok |-> TRUE, value |-> resp.d["homeworks"]]

\* hash(v) raises TypeError for a list and for a dict; `v in some_dict`
\* hashes v first.
Unhashable(v) == v.t \in {"list", "dict"}

\* TypeError("unhashable type: 'list'")
unhashable_error(v) ==
    Exc("TypeError", "unhashable type: '" \o TypeName(v) \o "'")

\* Mutant of parse_status: the status is looked up before the fields are
\* tested for None.
parse_status_status_first(homework) ==
    IF ~IsDict(homework)
    THEN [ok |-> FALSE,
          error |-> Exc("AttributeError",
                        "'" \o TypeName(homework)
                        \o "' object has no attribute 'get'")]
    ELSE
    LET homework_name == Get(homework, "homework_name", None)
        homework_status == Get(homework, "status", None)
    IN  IF Unhashable(homework_status)
        THEN [ok |-> FALSE, error |-> unhashable_error(homework_status)]
        ELSE IF ~(homework_status.t = "str"
                  /\ homework_status.s \in DOMAIN HOMEWORK_VERDICTS)
        THEN [ok |-> FALSE,
              error |-> Exc("UnknownHomeworkStatusError",
                            UNKNOWN_STATUS_TEXT \o Format(homework_status))]
        ELSE IF homework_name = None \/ homework_status = None
        THEN [ok |-> FALSE,
              error |-> Exc("InvalidAPIResponseError", NO_FIELDS_TEXT)]
        ELSE [ok |-> TRUE,
              value |-> STATUS_CHANGED_TEXT
                        \o Format(homework_name) \o "\". "
                        \o HOMEWORK_VERDICTS[homework_status.s]]

\* parse_status(homework).  Line 111, `homework_status not in
\* HOMEWORK_VERDICTS`, hashes the status: a list or a dict raises TypeError
\* there; any other value is compared with the keys, which are texts.
parse_status(homework) ==
    IF ~IsDict(homework)
    THEN \* homework.get raises: the value has no such attribute
         [ok |-> FALSE,
          error |-> Exc("AttributeError",
                        "'" \o TypeName(homework)
                        \o "' object has no attribute 'get'")]
    ELSE
    LET homework_name == Get(homework, "homework_name", None)
        homework_status == Get(homework, "status", None)
    IN  IF homework_name = None \/ homework_status = None
        THEN [ok |-> FALSE,
              error |-> Exc("InvalidAPIResponseError", NO_FIELDS_TEXT)]
        ELSE IF Unhashable(homework_status)
        THEN [ok |-> FALSE, error |-> unhashable_error(homework_status)]
        ELSE IF ~(homework_status.t = "str"
                  /\ homework_status.s \in DOMAIN HOMEWORK_VERDICTS)
        THEN [ok |-> FALSE,
              error |-> Exc("UnknownHomeworkStatusError",
                            UNKNOWN_STATUS_TEXT \o Format(homework_status))]
        ELSE [ok |-> TRUE,
              value |-> STATUS_CHANGED_TEXT
                        \o Format(homework_name) \o "\". "
                        \o HOMEWORK_VERDICTS[homework_status.s]]

\* main, line 143: f'Сбой в работе программы: {error}'
failure_notice(err) ==
    FAILURE_TEXT \o err.msg

\* Mutant of next_timestamp: the cursor is never moved.
next_timestamp_stuck(resp, ts) == ts

\* main, line 140: response.get('current_date', timestamp)
next_timestamp(resp, ts) == Get(resp, "current_date", ts)

\* main, line 142: `except Exception` catches every exception class that
\* derives from Exception, which all the classes raised here do.
Exceptions ==
    {"APIError", "JSONDecodeError", "TypeError", "AttributeError",
     "InvalidAPIResponseError", "UnknownHomeworkStatusError",
     "ApiTelegramException"}

\* Mutant of handles: `except APIError` in place of `except Exception`.
handles_api_only(err) == err.type = "APIError"

handles(err) == err.type \in Exceptions

----------------------------------------------------------------------------
(* main() as a state machine.                                              *)
(*                                                                         *)
(* pc names the statement about to run.  The locals response, homeworks    *)
(* and message are assigned in every iteration before anything reads them, *)
(* so the value one iteration leaves in them is never read by the next;    *)
(* the model unbinds them when the iteration ends (in Sleep) rather than   *)
(* carry the stale values.  error, sent and calls record what the current  *)
(* iteration did, and start afresh with the next one.  arg and slept are   *)
(* kept across the loop's back edge: the cursor of the last GET, and the   *)
(* seconds slept since it.                                                 *)

Init ==
    /\ tokens \in [TokenNames -> TokenValues]
    /\ pc = "check_tokens"
    /\ timestamp = Unbound
    /\ arg = Unbound
    /\ response = Unbound
    /\ homeworks = Unbound
    /\ message = Unbound
    /\ error = NoError
    /\ sent = <<>>
    /\ calls = 0
    /\ slept = 0

\* Lines 124-127: check_tokens(), then the bot and the initial cursor.
\* BotTokenException leaves main: the process ends.  TeleBot(token=...) is
\* taken to return the bot for any non-empty token.
CheckTokens ==
    /\ pc = "check_tokens"
    /\ LET r == check_tokens(tokens)
       IN  IF r.ok
           THEN /\ \E now \in StartTimes : timestamp' = PyInt(now)
                /\ pc' = "get_api_answer"
                /\ error' = error
           ELSE /\ pc' = "exit"
                /\ error' = r.error
                /\ timestamp' = timestamp
    /\ UNCHANGED <<tokens, arg, response, homeworks, message, sent, calls, slept>>

\* Line 131: response = get_api_answer(timestamp)
GetApiAnswer ==
    /\ pc = "get_api_answer"
    /\ \E http \in HttpOutcomes :
         LET r == get_api_answer(http)
         IN  IF r.ok
             THEN /\ response' = r.value
                  /\ error' = NoError
                  /\ pc' = "check_response"
             ELSE /\ response' = response
                  /\ error' = r.error
                  /\ pc' = "except"
    /\ arg' = timestamp
    /\ calls' = calls + 1
    /\ slept' = 0
    /\ UNCHANGED <<tokens, timestamp, homeworks, message, sent>>

\* Line 132: homeworks = check_response(response)
CheckResponse ==
    /\ pc = "check_response"
    /\ LET r == check_response(response)
       IN  IF r.ok
           THEN /\ homeworks' = r.value
                /\ pc' = "parse_status"
                /\ error' = error
           ELSE /\ homeworks' = homeworks
                /\ pc' = "except"
                /\ error' = r.error
    /\ UNCHANGED <<tokens, timestamp, arg, response, message, sent, calls, slept>>

\* Mutant of ParseStatus: homeworks[-1] in place of homeworks[0].
ParseStatus_last ==
    /\ pc = "parse_status"
    /\ Truthy(homeworks)
    /\ LET r == parse_status(homeworks.l[Len(homeworks.l)])
       IN  IF r.ok
           THEN /\ message' = PyStr(r.value)
                /\ pc' = "send_status"
                /\ error' = error
           ELSE /\ message' = message
                /\ pc' = "except"
                /\ error' = r.error
    /\ UNCHANGED <<tokens, timestamp, arg, response, homeworks, sent, calls, slept>>

\* Lines 134-135: if homeworks: message = parse_status(homeworks[0])
ParseStatus ==
    /\ pc = "parse_status"
    /\ Truthy(homeworks)
    /\ LET r == parse_status(homeworks.l[1])
       IN  IF r.ok
           THEN /\ message' = PyStr(r.value)
                /\ pc' = "send_status"
                /\ error' = error
           ELSE /\ message' = message
                /\ pc' = "except"
                /\ error' = r.error
    /\ UNCHANGED <<tokens, timestamp, arg, response, homeworks, sent, calls, slept>>

\* Mutant of NoNews: the empty branch skips the cursor update.
NoNews_skip ==
    /\ pc = "parse_status"
    /\ ~Truthy(homeworks)
    /\ pc' = "sleep"
    /\ UNCHANGED <<tokens, timestamp, arg, response, homeworks, message, error,
                   sent, calls, slept>>

\* Lines 137-138: else: nothing but a log line
NoNews ==
    /\ pc = "parse_status"
    /\ ~Truthy(homeworks)
    /\ pc' = "advance"
    /\ UNCHANGED <<tokens, timestamp, arg, response, homeworks, message, error,
                   sent, calls, slept>>

\* Line 136: send_message(bot, message); the chat API delivers or fails.
SendStatus ==
    /\ pc = "send_status"
    /\ \E delivered \in BOOLEAN :
         /\ sent' = Append(sent, [via |-> "status", text |-> message.s,
                                  ok |-> delivered])
         /\ IF send_message(message, delivered).raised
            THEN /\ pc' = "except"
                 /\ error' = Exc("ApiTelegramException", "send failed")
            ELSE /\ pc' = "advance"
                 /\ error' = error
    /\ UNCHANGED <<tokens, timestamp, arg, response, homeworks, message, calls, slept>>

\* Line 140: timestamp = response.get('current_date', timestamp)
Advance ==
    /\ pc = "advance"
    /\ timestamp' = next_timestamp(response, timestamp)
    /\ pc' = "sleep"
    /\ UNCHANGED <<tokens, arg, response, homeworks, message, error, sent, calls, slept>>

\* Mutant of Except: the handler logs and sends nothing.
Except_silent ==
    /\ pc = "except"
    /\ pc' = "sleep"
    /\ UNCHANGED <<tokens, timestamp, arg, response, homeworks, message, error,
                   sent, calls, slept>>

\* Mutant of Except: the handler moves the cursor to the current_date of
\* the response it has.
Except_advancing ==
    /\ pc = "except"
    /\ message' = PyStr(failure_notice(error))
    /\ pc' = "send_notice"
    /\ timestamp' = IF response # Unbound /\ IsDict(response)
                    THEN next_timestamp(response, timestamp)
                    ELSE timestamp
    /\ UNCHANGED <<tokens, arg, response, homeworks, error, sent, calls, slept>>

\* Lines 142-144: the handler builds the failure notice.  An exception the
\* clause does not catch leaves main.
Except ==
    /\ pc = "except"
    /\ IF handles(error)
       THEN /\ message' = PyStr(failure_notice(error))
            /\ pc' = "send_notice"
       ELSE /\ message' = message
            /\ pc' = "crashed"
    /\ UNCHANGED <<tokens, timestamp, arg, response, homeworks, error, sent, calls, slept>>

\* Line 145: send_message(bot, message) inside the handler; an exception
\* raised here would leave main.
SendNotice ==
    /\ pc = "send_notice"
    /\ \E delivered \in BOOLEAN :
         /\ sent' = Append(sent, [via |-> "notice", text |-> message.s,
                                  ok |-> delivered])
         /\ IF send_message(message, delivered).raised
            THEN pc' = "crashed"
            ELSE pc' = "sleep"
    /\ UNCHANGED <<tokens, timestamp, arg, response, homeworks, message, error,
                   calls, slept>>

\* Line 146: time.sleep(RETRY_PERIOD), then the loop starts over.
Sleep ==
    /\ pc = "sleep"
    /\ slept' = slept + RETRY_PERIOD
    /\ pc' = "get_api_answer"
    /\ response' = Unbound
    /\ homeworks' = Unbound
    /\ message' = Unbound
    /\ error' = NoError
    /\ sent' = <<>>
    /\ calls' = 0
    /\ UNCHANGED <<tokens, timestamp, arg>>

Next ==
    \/ CheckTokens
    \/ GetApiAnswer
    \/ CheckResponse
    \/ ParseStatus
    \/ NoNews
    \/ SendStatus
    \/ Advance
    \/ Except
    \/ SendNotice
    \/ Sleep

Spec == Init /\ [][Next]_vars

\* The interpreter runs the next statement whenever there is one, and every
\* call into the network returns or raises.
FairSpec == Spec /\ WF_vars(Next)

----------------------------------------------------------------------------
(* Vocabulary of the properties *)

\* The key is in the mapping (whatever its value).
HasKey(v, key) == key \in DOMAIN v.d

\* A decoded body that has the shape of section 6: a mapping with both
\* keys whose homeworks is a sequence.
WellShaped(v) ==
    /\ v.t = "dict"
    /\ HasKey(v, "homeworks")
    /\ HasKey(v, "current_date")
    /\ v.d.homeworks.t = "list"

\* The field is missing from the record: no such key, or the key is null.
Missing(h, key) == ~HasKey(h, key) \/ h.d[key] = None

KnownStatuses == {PyStr("approved"), PyStr("reviewing"), PyStr("rejected")}

\* A record that has a name and a known status.
Formattable(h) ==
    /\ h.t = "dict"
    /\ ~Missing(h, "homework_name")
    /\ ~Missing(h, "status")
    /\ h.d.status \in KnownStatuses

\* 'Изменился статус проверки работы "{name}". {verdict}'
Sentence(name, verdict) == STATUS_CHANGED_TEXT \o name \o "\". " \o verdict

\* The verdict of a known status in the static table.
VerdictOf(status) ==
    CASE status = PyStr("approved") -> HOMEWORK_VERDICTS.approved
      [] status = PyStr("reviewing") -> HOMEWORK_VERDICTS.reviewing
      [] status = PyStr("rejected") -> HOMEWORK_VERDICTS.rejected

\* The GET of the current iteration returned a body (response is bound
\* from the GET that returns until the iteration ends).
Returned == response # Unbound

\* The statements of one loop iteration after the GET.
AfterGet ==
    {"check_response", "parse_status", "send_status", "advance", "except",
     "send_notice", "sleep"}

\* The exceptions of get_api_answer, check_response and parse_status.
StepErrors ==
    {"APIError", "JSONDecodeError", "TypeError", "AttributeError",
     "InvalidAPIResponseError", "UnknownHomeworkStatusError"}

----------------------------------------------------------------------------
(* Properties *)

\* C1 as stated: at the end of every iteration whose GET returned a
\* response whose current_date is T, the cursor (which the sleep leaves
\* alone and the next GET passes as from_date) is T, whatever the homeworks
\* field holds.
C1_CursorFollowsEveryResponse ==
    (/\ pc = "sleep"
     /\ Returned
     /\ response.t = "dict"
     /\ HasKey(response, "current_date"))
    => timestamp = response.d.current_date

\* C1 amended: at the end of every iteration whose GET returned a
\* well-shaped response whose current_date is T and whose homeworks is empty
\* or starts with a record that has a name and a known status, the cursor is
\* T; the sleep leaves the cursor alone and leads to the next GET, which
\* passes the cursor as from_date.
C1_CursorFollowsCleanResponse ==
    /\ []((/\ pc = "sleep"
           /\ Returned
           /\ WellShaped(response)
           /\ \/ response.d.homeworks.l = <<>>
              \/ Formattable(response.d.homeworks.l[1]))
          => timestamp = response.d.current_date)
    /\ [][pc = "sleep" => pc' = "get_api_answer" /\ timestamp' = timestamp]_vars
    /\ [][pc = "get_api_answer" => arg' = timestamp /\ timestamp' = timestamp]_vars

\* C1 witness: an iteration with two homeworks is at the sleep with the
\* cursor at the response's current_date, which differs from the cursor its
\* own GET was issued with.
C1_Witness ==
    /\ pc = "sleep"
    /\ Returned
    /\ WellShaped(response)
    /\ Len(response.d.homeworks.l) = 2
    /\ timestamp = response.d.current_date
    /\ timestamp = PyInt(2000)
    /\ arg = PyInt(1000)

\* The secret is empty or absent.
NoValue(v) == v = None \/ v = PyStr("")

\* Some required secret is empty or absent.
SecretMissing == \E name \in TokenNames : NoValue(tokens[name])

\* C2: once check_tokens has passed, every iteration reaches the sleep and
\* takes it, whatever get_api_answer, check_response or parse_status raised,
\* and another GET follows; main never leaves the loop.
C2_LoopResilience ==
    /\ [](~SecretMissing => pc \notin {"exit", "crashed"})
    /\ (pc \in AfterGet) ~> (pc = "get_api_answer" /\ slept = RETRY_PERIOD)
    /\ (pc = "get_api_answer") ~> (pc \in {"check_response", "except"} /\ calls = 1)

\* C2 witness: an iteration whose first homework entry is no mapping has
\* reached the sleep, and it is not the first iteration.
C2_Witness ==
    /\ pc = "sleep"
    /\ error.type = "AttributeError"
    /\ timestamp = PyInt(2000)

\* C3: with a secret empty or absent main ends in BotTokenException before
\* the loop: no GET, no message, no sleep; with all three present it never
\* ends in BotTokenException.
C3_Startup ==
    /\ SecretMissing =>
         /\ pc \in {"check_tokens", "exit"}
         /\ calls = 0
         /\ arg = Unbound
         /\ sent = <<>>
         /\ slept = 0
         /\ pc = "exit" => error = Exc("BotTokenException", TOKENS_TEXT)
    /\ ~SecretMissing => pc # "exit" /\ error.type # "BotTokenException"

\* C3 witness: only TELEGRAM_CHAT_ID is empty, and main has ended.
C3_Witness ==
    /\ pc = "exit"
    /\ tokens["PRACTICUM_TOKEN"] = PyStr("secret")
    /\ tokens["TELEGRAM_TOKEN"] = PyStr("secret")
    /\ tokens["TELEGRAM_CHAT_ID"] = PyStr("")

\* C4: a send that fails goes on exactly as one that succeeds.  After the
\* status send comes the cursor update and after the notice send the sleep,
\* with nothing but the record of the attempt changed; an iteration holds
\* at most one send, so a failed status send is followed by no notice; and
\* main never ends on a send.
C4_NotifierIsolation ==
    /\ [][pc = "send_status" =>
            /\ pc' = "advance"
            /\ Len(sent') = Len(sent) + 1
            /\ UNCHANGED <<timestamp, arg, response, homeworks, message, error,
                           calls, slept>>]_vars
    /\ [][pc = "send_notice" =>
            /\ pc' = "sleep"
            /\ Len(sent') = Len(sent) + 1
            /\ UNCHANGED <<timestamp, arg, response, homeworks, message, error,
                           calls, slept>>]_vars
    /\ [](Len(sent) <= 1)
    /\ []((pc = "sleep" /\ sent # <<>> /\ sent[1].via = "status") =>
            error = NoError /\ timestamp = response.d.current_date)
    /\ [](pc # "crashed")

\* C4 witness: the status send failed, and the iteration has updated the
\* cursor and reached the sleep with that one attempt on record.
C4_Witness ==
    /\ pc = "sleep"
    /\ Len(sent) = 1
    /\ sent[1].via = "status"
    /\ ~sent[1].ok
    /\ timestamp = PyInt(2000)
    /\ arg = PyInt(1000)

\* C5: in an iteration in which get_api_answer, check_response or
\* parse_status raised, no status message is sent, one GET was issued, and
\* at the sleep exactly one send was attempted: the failure notice, which
\* carries the text of the error.
C5_FailureNotice ==
    (pc \in {"except", "send_notice", "sleep"} /\ error.type \in StepErrors) =>
        /\ calls = 1
        /\ \A i \in 1..Len(sent) : sent[i].via = "notice"
        /\ pc # "sleep" => sent = <<>>
        /\ pc = "sleep" =>
             /\ Len(sent) = 1
             /\ sent[1].text = FAILURE_TEXT \o error.msg

\* C5 witness: the API answered 503 and the iteration is at the sleep.
C5_Witness ==
    /\ pc = "sleep"
    /\ error = Exc("APIError",
                   ENDPOINT_TEXT \o ENDPOINT \o UNAVAILABLE_TEXT \o "503")
    /\ Len(sent) = 1

\* C6: in an iteration whose response is well-shaped and whose homeworks
\* starts with a record that has a name and a known status, no error is
\* raised and no notice is sent; at the sleep exactly one send was attempted,
\* the sentence for the first entry (whatever follows it in the list), and
\* the cursor is the response's current_date.
C6_StatusRelay ==
    (/\ pc \in AfterGet
     /\ Returned
     /\ WellShaped(response)
     /\ response.d.homeworks.l # <<>>
     /\ Formattable(response.d.homeworks.l[1]))
    => LET first == response.d.homeworks.l[1]
       IN  /\ error = NoError
           /\ pc \notin {"except", "send_notice"}
           /\ \A i \in 1..Len(sent) : sent[i].via = "status"
           /\ pc = "sleep" =>
                /\ Len(sent) = 1
                /\ sent[1].text = Sentence(first.d.homework_name.s,
                                           VerdictOf(first.d.status))
                /\ timestamp = response.d.current_date

\* C6 witness: scenario 1 followed by a malformed second entry: hw1 is
\* approved, the sentence for it is the one send, the cursor is 1000.
C6_Witness ==
    /\ pc = "sleep"
    /\ response =
         PyDict([homeworks |->
                   PyList(<<PyDict([homework_name |-> PyStr("hw1"),
                                    status |-> PyStr("approved")]),
                            PyStr("junk")>>),
                 current_date |-> PyInt(1000)])
    /\ Len(sent) = 1
    /\ sent[1].text = STATUS_CHANGED_TEXT \o "hw1\". " \o HOMEWORK_VERDICTS.approved
    /\ arg = PyInt(500)
    /\ timestamp = PyInt(1000)

\* C7: in an iteration whose response is well-shaped with an empty homeworks
\* list nothing is sent and no error is raised, and at the sleep the cursor
\* is the response's current_date.
C7_SilenceOnNoNews ==
    (/\ pc \in AfterGet
     /\ Returned
     /\ WellShaped(response)
     /\ response.d.homeworks.l = <<>>)
    => /\ sent = <<>>
       /\ error = NoError
       /\ pc \in {"check_response", "parse_status", "advance", "sleep"}
       /\ pc = "sleep" => timestamp = response.d.current_date

\* C7 witness: scenario 2: no homeworks, current_date 2000, cursor moved
\* from 1000 to 2000 and nothing sent.
C7_Witness ==
    /\ pc = "sleep"
    /\ response = PyDict([homeworks |-> PyList(<<>>), current_date |-> PyInt(2000)])
    /\ sent = <<>>
    /\ arg = PyInt(1000)
    /\ timestamp = PyInt(2000)

\* parse_status has just run on the first entry of homeworks.
ParseStatusRan ==
    /\ pc \in {"send_status", "except"}
    /\ homeworks # Unbound
    /\ homeworks.l # <<>>

\* C8 as stated: parse_status on a record: a missing homework_name or status
\* (absent, or null) gives InvalidAPIResponseError, whatever the other field
\* holds; otherwise every status outside approved/reviewing/rejected gives
\* UnknownHomeworkStatusError; otherwise the result is exactly
\* 'Изменился статус проверки работы "{name}". {verdict}' with the verdict of
\* the status.
C8_ParseStatusEveryRecord ==
    (ParseStatusRan /\ homeworks.l[1].t = "dict") =>
      LET h == homeworks.l[1]
      IN  IF Missing(h, "homework_name") \/ Missing(h, "status")
          THEN /\ pc = "except"
               /\ error = Exc("InvalidAPIResponseError", NO_FIELDS_TEXT)
          ELSE IF h.d.status \notin KnownStatuses
          THEN /\ pc = "except"
               /\ error.type = "UnknownHomeworkStatusError"
          ELSE /\ pc = "send_status"
               /\ error = NoError
               /\ message = PyStr(Sentence(h.d.homework_name.s, VerdictOf(h.d.status)))

\* C8 amended: parse_status on a record: a missing homework_name or status
\* (absent, or null) gives InvalidAPIResponseError, whatever the other field
\* holds; otherwise a status that is a list or a mapping gives TypeError
\* (unhashable type); otherwise a status outside approved/reviewing/rejected
\* gives UnknownHomeworkStatusError naming the status; otherwise the result
\* is exactly 'Изменился статус проверки работы "{name}". {verdict}' with the
\* verdict of the status.
C8_ParseStatus ==
    (ParseStatusRan /\ homeworks.l[1].t = "dict") =>
      LET h == homeworks.l[1]
      IN  IF Missing(h, "homework_name") \/ Missing(h, "status")
          THEN /\ pc = "except"
               /\ error = Exc("InvalidAPIResponseError", NO_FIELDS_TEXT)
          ELSE IF h.d.status.t = "list"
          THEN /\ pc = "except"
               /\ error = Exc("TypeError", "unhashable type: 'list'")
          ELSE IF h.d.status.t = "dict"
          THEN /\ pc = "except"
               /\ error = Exc("TypeError", "unhashable type: 'dict'")
          ELSE IF h.d.status \notin KnownStatuses
          THEN /\ pc = "except"
               /\ error = Exc("UnknownHomeworkStatusError",
                              UNKNOWN_STATUS_TEXT
                              \o (IF h.d.status.t = "int"
                                  THEN ToString(h.d.status.i)
                                  ELSE h.d.status.s))
          ELSE /\ pc = "send_status"
               /\ error = NoError
               /\ message = PyStr(Sentence(h.d.homework_name.s, VerdictOf(h.d.status)))

\* C8 witness: a record named hw1 whose status is a list has been refused
\* with TypeError.
C8_Witness ==
    /\ ParseStatusRan
    /\ homeworks.l[1] = PyDict([homework_name |-> PyStr("hw1"),
                                status |-> PyList(<<>>)])
    /\ error = Exc("TypeError", "unhashable type: 'list'")

\* C9: check_response on a decoded value: not a mapping: TypeError; else
\* homeworks or current_date absent: TypeError; else homeworks not a list:
\* TypeError (each with its own text, and homeworks is not bound); every
\* other value, an empty homeworks included: the homeworks list itself is
\* returned and none of the three errors is raised.  The call leaves
\* response as it was.
C9_CheckResponse ==
    /\ []((pc \in (AfterGet \ {"check_response"}) /\ Returned) =>
            IF response.t # "dict"
            THEN homeworks = Unbound /\ error = Exc("TypeError", NOT_DICT_TEXT)
            ELSE IF ~HasKey(response, "homeworks") \/ ~HasKey(response, "current_date")
            THEN homeworks = Unbound /\ error = Exc("TypeError", NO_KEYS_TEXT)
            ELSE IF response.d.homeworks.t # "list"
            THEN homeworks = Unbound /\ error = Exc("TypeError", NOT_LIST_TEXT)
            ELSE /\ homeworks = response.d.homeworks
                 /\ error \notin {Exc("TypeError", NOT_DICT_TEXT),
                                  Exc("TypeError", NO_KEYS_TEXT),
                                  Exc("TypeError", NOT_LIST_TEXT)})
    /\ [][pc = "check_response" => response' = response]_vars

\* C9 witness: a response with an empty homeworks list has passed the check.
C9_Witness ==
    /\ pc = "parse_status"
    /\ response = PyDict([homeworks |-> PyList(<<>>), current_date |-> None])
    /\ homeworks = PyList(<<>>)

\* C10: an iteration in which a step raised ends with the cursor its GET
\* was issued with, and the cursor changes only in the update at the end of
\* an iteration without an error (and when main first sets it); the sleep
\* leaves it alone and the next GET passes it as from_date.
C10_CursorFrame ==
    /\ []((pc \in AfterGet /\ error # NoError) => timestamp = arg)
    /\ [][timestamp' # timestamp =>
            \/ pc = "advance" /\ error = NoError
            \/ pc = "check_tokens"]_vars
    /\ [][pc = "get_api_answer" => arg' = timestamp]_vars

\* C10 witness: scenario 4: the status archived was refused, the response's
\* current_date is 2000 and the cursor is still the 1000 of the GET.
C10_Witness ==
    /\ pc = "sleep"
    /\ error.type = "UnknownHomeworkStatusError"
    /\ response.d.current_date = PyInt(2000)
    /\ timestamp = PyInt(1000)
    /\ arg = PyInt(1000)
    /\ Len(sent) = 1

====
